---------------------------- MODULE Spec2Model ----------------------------
(***************************************************************************)
(* SmartBill analytics core: the outlier engine (Z-Score, IQR, Sudden Drop *)
(* and their fusion), the demand predictor and the stock optimizer; and    *)
(* SmartBill billing: the cart store, decrementStock and the checkout of   *)
(* the page CreateBill.                                                    *)
(*                                                                         *)
(* The analytics functions are pure, so each component has its own         *)
(* specification: Init draws the arguments from bounded sets and one       *)
(* action per exported function applies it and stores what it returned.    *)
(* The cart store starts empty and has one action per store function.      *)
(* An async function takes one step per request it awaits, so the requests *)
(* of two invocations reach the tables in any order.                       *)
(*                                                                         *)
(* JavaScript numbers are exact rationals [n, d] with d > 0, and NaN.  A    *)
(* standard deviation is carried as its square, and a comparison against   *)
(* it is made between squares.  The demand predictor keeps its quotients   *)
(* in lowest terms.  On the series of SampleValues the doubles of the      *)
(* detectors decide every comparison as the exact values do.  In           *)
(* generatePrediction a double can fall just short of an exact tie of      *)
(* Math.round (quantities 0,0,1,1,1,1,1: exactly 1.5, as doubles           *)
(* 1.4999999999999998), so a rounded output can be one less than the exact *)
(* one there; the ranges of the outputs are not affected.                  *)
(***************************************************************************)
EXTENDS Integers, Sequences, FiniteSets, TLC

VARIABLES
    called,        \* the function that returned last, "none" before any call
    data,          \* TimeSeriesPoint[]: the argument of the outlier engine
    alerts,        \* OutlierAlert[]: what the outlier engine returned
    allAlerts,     \* OutlierAlert[]: the candidates that
                   \* runComprehensiveAnomalyCheck put together, [] otherwise
    item,          \* StockItem: the first argument of optimizeStock
    prediction,    \* PredictionOutput: what generatePrediction returned, and
                   \* the second argument of optimizeStock
    leadTimeDays,  \* the third argument of optimizeStock
    optimization,  \* StockOptimization: what optimizeStock returned
    stats,         \* DailyStat[]: the history passed to generatePrediction
    productCategory, \* the category passed to generatePrediction
    activeEvents,  \* CalendarEvent[]: the events passed to generatePrediction
    clock,         \* the moment of the call: new Date()
    eventImpact,   \* what calculateEventMultiplier returned to generatePrediction
    items,         \* CartItem[]: the state of the cart store
    paymentState,  \* CreateBill: 'idle', 'generating', 'qr' or 'success'
    checkout,      \* the position of handleCheckout, "none" when it is not running
    bills,         \* the rows of the table bills: one total_amount a bill
    bill_items,    \* the rows of the table bill_items
    current_stock, \* the column current_stock of the table products, by id
    openingStock,  \* current_stock before any decrementStock
    loyalty_points, \* the column loyalty_points of the profile 'guest-user'
    stockCalls,    \* the invocations of decrementStock, by caller
    runs           \* the invocations of handlePaymentSuccess

anomalyVars == <<data, alerts, allAlerts>>

stockVars == <<item, leadTimeDays, optimization>>

predictionVars == <<stats, productCategory, activeEvents, clock>>

cartVars == <<items>>

databaseVars == <<bills, bill_items, current_stock, openingStock, loyalty_points>>

checkoutVars == <<paymentState, checkout, runs>>

billingVars == <<cartVars, databaseVars, checkoutVars, stockCalls>>

analyticsVars ==
    <<called, anomalyVars, stockVars, predictionVars, prediction, eventImpact>>

vars == <<called, data, alerts, allAlerts, item, prediction, leadTimeDays,
          optimization, stats, productCategory, activeEvents, clock,
          eventImpact, items, paymentState, checkout, bills, bill_items,
          current_stock, openingStock, loyalty_points, stockCalls, runs>>

---------------------------------------------------------------------------
(* Bounds *)

\* Longest series passed to the outlier engine.
MaxLen == 8

\* The values a point of a series takes.
SampleValues == {0, 1, 3}

\* Day number (days since 1970-01-01) of the day before a series starts.
FirstDay == 0

\* Largest everyday stock level, sell rate (in halves of a unit per day),
\* predicted quantity and lead time passed to optimizeStock.
MaxStock == 24

MaxSellRateHalves == 20

MaxPrediction == 10

MaxLeadTime == 4

\* Longest history passed to generatePrediction, and the longest one whose
\* days take every sample quantity.
MaxStats == 8

MaxVariedStats == 5

---------------------------------------------------------------------------
(* Numbers: the quotient n / d with d > 0, and NaN as d = 0 *)

Rat(n, d) == IF d < 0 THEN [n |-> -n, d |-> -d] ELSE [n |-> n, d |-> d]

RInt(i) == [n |-> i, d |-> 1]

NaN == [n |-> 0, d |-> 0]

IsNaN(a) == a.d = 0

\* Arithmetic with a NaN operand gives NaN: its d, and so the result's, is 0.
RAdd(a, b) == [n |-> a.n * b.d + b.n * a.d, d |-> a.d * b.d]

RSub(a, b) == [n |-> a.n * b.d - b.n * a.d, d |-> a.d * b.d]

RMul(a, b) == [n |-> a.n * b.n, d |-> a.d * b.d]

\* a / b for b # 0
RDiv(a, b) == Rat(a.n * b.d, a.d * b.n)

RAbs(a) == [n |-> IF a.n < 0 THEN -a.n ELSE a.n, d |-> a.d]

\* A comparison with NaN is false.
RLt(a, b) == ~IsNaN(a) /\ ~IsNaN(b) /\ a.n * b.d < b.n * a.d

RLeq(a, b) == ~IsNaN(a) /\ ~IsNaN(b) /\ a.n * b.d <= b.n * a.d

REq(a, b) == ~IsNaN(a) /\ ~IsNaN(b) /\ a.n * b.d = b.n * a.d

\* Math.max and Math.min: NaN when an argument is NaN
RMax(a, b) ==
    IF IsNaN(a) \/ IsNaN(b) THEN NaN ELSE IF RLt(a, b) THEN b ELSE a

RMin(a, b) ==
    IF IsNaN(a) \/ IsNaN(b) THEN NaN ELSE IF RLt(b, a) THEN b ELSE a

\* Math.floor of a number that is not NaN
MathFloor(a) == a.n \div a.d

\* Math.round of a number that is not NaN: the nearest integer, a tie going
\* up (floor(x + 1/2)).
MathRound(a) == (2 * a.n + a.d) \div (2 * a.d)

\* Math.round as a number: NaN for NaN
RRound(a) == IF IsNaN(a) THEN NaN ELSE RInt(MathRound(a))

RECURSIVE Gcd(_, _)
Gcd(a, b) == IF b = 0 THEN a ELSE Gcd(b, a % b)

\* The same number in lowest terms: a number has one value whatever the
\* quotient that stands for it.
Normalized(a) ==
    IF IsNaN(a) THEN NaN
    ELSE LET g == Gcd(IF a.n < 0 THEN -a.n ELSE a.n, a.d)
         IN  [n |-> a.n \div g, d |-> a.d \div g]

RECURSIVE SumSeq(_)
SumSeq(s) == IF s = <<>> THEN 0 ELSE Head(s) + SumSeq(Tail(s))

\* s.map(f)
MapSeq(s, f(_)) == [i \in 1..Len(s) |-> f(s[i])]

---------------------------------------------------------------------------
(* Dates.  A date string "YYYY-MM-DD" is carried as its day number. *)

MsPerDay == 86400000

\* new Date(date).getTime() of a valid ISO date: midnight UTC of that day.
getTime(date) == date * MsPerDay

---------------------------------------------------------------------------
(* Helper math functions *)

getMean(values) ==
    IF Len(values) = 0 THEN RInt(0)
    ELSE Rat(SumSeq(values), Len(values))

\* The sample variance (a division by n - 1) in place of the population one.
SampleVarianceForStdDev(values, mean) ==
    IF Len(values) <= 1 THEN RInt(0)
    ELSE LET sq(v) == RMul(RSub(RInt(v), mean), RSub(RInt(v), mean))
             devs == MapSeq(values, sq)
             total == SumSeq([i \in 1..Len(devs) |-> devs[i].n])
         IN  Rat(total, mean.d * mean.d * (Len(values) - 1))

\* The square of getStandardDeviation: the population variance.
getStandardDeviationSq(values, mean) ==
    IF Len(values) <= 1 THEN RInt(0)
    ELSE LET sq(v) == RMul(RSub(RInt(v), mean), RSub(RInt(v), mean))
             devs == MapSeq(values, sq)
             \* every term has the denominator mean.d * mean.d
             total == SumSeq([i \in 1..Len(devs) |-> devs[i].n])
         IN  Rat(total, mean.d * mean.d * Len(values))

---------------------------------------------------------------------------
(* Detection algorithms *)

Values(d) == [i \in 1..Len(d) |-> d[i].value]

\* A default threshold of 2 standard deviations.
ZThresholdOfTwo == RInt(2)

\* 2.5, the default threshold of detectZScoreAnomalies
ZThreshold == Rat(5, 2)

\* Math.abs(zScore) > threshold, for stdDev # 0
ZExceeds(point, mean, stdDevSq, threshold) ==
    LET dev == RSub(RInt(point.value), mean)
    IN  RLt(RMul(RMul(threshold, threshold), stdDevSq), RMul(dev, dev))

\* The sign test turned around: zScore < 0.
ZIsSpikeBelowMean(point, mean) == RLt(RSub(RInt(point.value), mean), RInt(0))

\* zScore > 0, for stdDev # 0
ZIsSpike(point, mean) == RLt(RInt(0), RSub(RInt(point.value), mean))

\* The percentage cut off at the decimal point instead of rounded.
ZPercentChangeTruncated(point, mean) ==
    LET divisor == IF mean.n = 0 THEN RInt(1) ELSE mean
    IN  MathFloor(RMul(RDiv(RAbs(RSub(RInt(point.value), mean)), divisor),
                       RInt(100)))

\* Math.round((Math.abs(point.value - mean) / (mean || 1)) * 100)
ZPercentChange(point, mean) ==
    LET divisor == IF mean.n = 0 THEN RInt(1) ELSE mean
    IN  MathRound(RMul(RDiv(RAbs(RSub(RInt(point.value), mean)), divisor),
                       RInt(100)))

ZAlert(point, mean) ==
    [date        |-> point.date,
     value       |-> point.value,
     method      |-> "Z-Score",
     severity    |-> IF ZIsSpike(point, mean) THEN "success" ELSE "warning",
     title       |-> IF ZIsSpike(point, mean) THEN "Sudden Popularity Spike"
                     ELSE "Unusual Activity Drop",
     explanation |-> <<"Value deviated significantly from the historical average (a ",
                       ZPercentChange(point, mean), "% difference).">>]

detectZScoreAnomaliesWith(d, threshold) ==
    LET values == Values(d)
        mean == getMean(values)
        stdDevSq == getStandardDeviationSq(values, mean)
        flagged(p) == ZExceeds(p, mean, stdDevSq, threshold)
        mk(p) == ZAlert(p, mean)
    IN  IF stdDevSq.n = 0 THEN <<>>
        ELSE MapSeq(SelectSeq(d, flagged), mk)

detectZScoreAnomalies(d) == detectZScoreAnomaliesWith(d, ZThreshold)

\* The date comparator with its operands exchanged: oldest first.
CompareOldestFirst(comparator, a, b) ==
    CASE comparator = "NumericAscending" -> a - b
      [] comparator = "MostRecentFirst"  -> getTime(a.date) - getTime(b.date)

\* The comparators passed to Array.prototype.sort:
\*   (a, b) => a - b
\*   (a, b) => new Date(b.date).getTime() - new Date(a.date).getTime()
Compare(comparator, a, b) ==
    CASE comparator = "NumericAscending" -> a - b
      [] comparator = "MostRecentFirst"  -> getTime(b.date) - getTime(a.date)

\* Array.prototype.sort: a stable sort; x goes before y when the comparator
\* gives a negative number for (x, y).
RECURSIVE InsertSorted(_, _, _)
InsertSorted(x, s, comparator) ==
    IF s = <<>> THEN <<x>>
    ELSE IF Compare(comparator, x, Head(s)) < 0 THEN <<x>> \o s
    ELSE <<Head(s)>> \o InsertSorted(x, Tail(s), comparator)

RECURSIVE ArraySort(_, _)
ArraySort(s, comparator) ==
    IF s = <<>> THEN <<>>
    ELSE InsertSorted(s[Len(s)],
                      ArraySort(SubSeq(s, 1, Len(s) - 1), comparator),
                      comparator)

\* Math.floor(values.length * 0.25) and Math.floor(values.length * 0.75),
\* as 1-based positions
Q1Index(n) == (n \div 4) + 1

Q3Index(n) == ((3 * n) \div 4) + 1

\* 1.5, the fence factor of detectIQRAnomalies
IQRFactor == Rat(3, 2)

IQRLowerBound(sorted) ==
    LET q1 == sorted[Q1Index(Len(sorted))]
        q3 == sorted[Q3Index(Len(sorted))]
    IN  RSub(RInt(q1), RMul(IQRFactor, RInt(q3 - q1)))

IQRUpperBound(sorted) ==
    LET q1 == sorted[Q1Index(Len(sorted))]
        q3 == sorted[Q3Index(Len(sorted))]
    IN  RAdd(RInt(q3), RMul(IQRFactor, RInt(q3 - q1)))

\* The fences taken as outside: <= and >= in place of < and >.
IQRFlaggedOnFence(point, lowerBound, upperBound) ==
    \/ RLeq(RInt(point.value), lowerBound)
    \/ RLeq(upperBound, RInt(point.value))

IQRFlagged(point, lowerBound, upperBound) ==
    \/ RLt(RInt(point.value), lowerBound)
    \/ RLt(upperBound, RInt(point.value))

\* Every alert of the IQR detector a warning.
IQRAlertAlwaysWarning(point, upperBound) ==
    [date        |-> point.date,
     value       |-> point.value,
     method      |-> "IQR",
     severity    |-> "warning",
     title       |-> "Statistical Outlier Detected",
     explanation |-> <<"Value of ", point.value,
                       " falls completely outside expected normal operating bounds.">>]

IQRAlert(point, upperBound) ==
    [date        |-> point.date,
     value       |-> point.value,
     method      |-> "IQR",
     severity    |-> IF RLt(upperBound, RInt(point.value)) THEN "success"
                     ELSE "warning",
     title       |-> "Statistical Outlier Detected",
     explanation |-> <<"Value of ", point.value,
                       " falls completely outside expected normal operating bounds.">>]

\* Fewest points detectIQRAnomalies looks at
IQRMinPoints == 4

\* The points of an array put in ascending order of value, in place.
RECURSIVE SortedByValue(_)
SortedByValue(d) ==
    IF d = <<>> THEN <<>>
    ELSE LET sorted == SortedByValue(SubSeq(d, 1, Len(d) - 1))
             last == d[Len(d)]
             before == SelectSeq(sorted, LAMBDA q : q.value <= last.value)
             after == SelectSeq(sorted, LAMBDA q : q.value > last.value)
         IN  before \o <<last>> \o after

\* The sort made on the caller's array, and the values read from it after:
\* data.sort((a, b) => a.value - b.value).map(d => d.value)
ArraysAfterSortOfData(d) ==
    [data |-> SortedByValue(d), values |-> Values(SortedByValue(d))]

\* The arrays after [...data.map(d => d.value)].sort((a, b) => a - b): sort
\* works in place, on the copy of the array that map made; data is as it was.
ArraysAfterIQRSort(d) ==
    [data |-> d, values |-> ArraySort(Values(d), "NumericAscending")]

detectIQRAnomalies(d) ==
    LET arrays == ArraysAfterIQRSort(d)
        values == arrays.values
        lowerBound == IQRLowerBound(values)
        upperBound == IQRUpperBound(values)
        flagged(p) == IQRFlagged(p, lowerBound, upperBound)
        mk(p) == IQRAlert(p, upperBound)
    IN  IF Len(values) < IQRMinPoints THEN <<>>
        ELSE MapSeq(SelectSeq(arrays.data, flagged), mk)

\* The defaults of detectSuddenDrops
DropThresholdPercent == 40

WindowSize == 7

\* The window shifted by one, so that it ends with the current point.
WindowWithCurrentPoint(d, i, windowSize) ==
    Values(SubSeq(d, i - windowSize + 1, i))

\* data.slice(i - windowSize, i).map(d => d.value), i a 1-based position
HistoricalWindow(d, i, windowSize) == Values(SubSeq(d, i - windowSize, i - 1))

\* ((windowAverage - currentPoint.value) / windowAverage) * 100, for
\* windowAverage # 0
DropPercent(d, i, windowSize) ==
    LET windowAverage == getMean(HistoricalWindow(d, i, windowSize))
    IN  RMul(RDiv(RSub(windowAverage, RInt(d[i].value)), windowAverage),
             RInt(100))

DropFlagged(d, i, dropThresholdPercent, windowSize) ==
    /\ getMean(HistoricalWindow(d, i, windowSize)).n # 0
    /\ RLeq(RInt(dropThresholdPercent), DropPercent(d, i, windowSize))

DropAlert(d, i, windowSize) ==
    [date        |-> d[i].date,
     value       |-> d[i].value,
     method      |-> "Sudden Drop",
     severity    |-> "critical",
     title       |-> "Possible Supply Issue",
     explanation |-> <<"Volume dropped ", MathRound(DropPercent(d, i, windowSize)),
                       "% compared to the preceding ", windowSize,
                       "-day moving average.">>]

detectSuddenDropsWith(d, dropThresholdPercent, windowSize) ==
    LET \* for (let i = windowSize; i < data.length; i++), 1-based
        positions == [k \in 1..(Len(d) - windowSize) |-> windowSize + k]
        flagged(i) == DropFlagged(d, i, dropThresholdPercent, windowSize)
        mk(i) == DropAlert(d, i, windowSize)
    IN  IF Len(d) < windowSize + 1 THEN <<>>
        ELSE MapSeq(SelectSeq(positions, flagged), mk)

detectSuddenDrops(d) == detectSuddenDropsWith(d, DropThresholdPercent, WindowSize)

---------------------------------------------------------------------------
(* Fusion *)

\* severityRank
SeverityRank(severity) ==
    CASE severity = "critical" -> 4
      [] severity = "warning"  -> 3
      [] severity = "success"  -> 2
      [] severity = "info"     -> 1

\* A Map<string, OutlierAlert> is the sequence of its values in insertion
\* order; a key is the date of its value.
MapHas(map, date) == \E j \in 1..Len(map) : map[j].date = date

MapGet(map, date) == map[CHOOSE j \in 1..Len(map) : map[j].date = date]

\* Map.prototype.set: a new key goes last, a known key keeps its place.
MapSet(map, alert) ==
    IF MapHas(map, alert.date)
    THEN [j \in 1..Len(map) |->
             IF map[j].date = alert.date THEN alert ELSE map[j]]
    ELSE Append(map, alert)

\* >= in place of >: an alert of the same rank replaces too.
ReplacesWhenNotLower(alert, existing) ==
    SeverityRank(alert.severity) >= SeverityRank(existing.severity)

\* The rank comparison turned around: the lower rank replaces.
ReplacesWhenLower(alert, existing) ==
    SeverityRank(alert.severity) < SeverityRank(existing.severity)

\* severityRank[alert.severity] > severityRank[existing.severity]
Replaces(alert, existing) ==
    SeverityRank(alert.severity) > SeverityRank(existing.severity)

\* The body of allAlerts.forEach
DedupStep(map, alert) ==
    IF ~MapHas(map, alert.date) THEN MapSet(map, alert)
    ELSE IF Replaces(alert, MapGet(map, alert.date)) THEN MapSet(map, alert)
    ELSE map

\* allAlerts.forEach over the alerts that are left
RECURSIVE Deduplicate(_, _)
Deduplicate(rest, map) ==
    IF rest = <<>> THEN map
    ELSE Deduplicate(Tail(rest), DedupStep(map, Head(rest)))

\* The combined list without the alerts of detectSuddenDrops.
AllAlertsWithoutDrops(d) ==
    detectZScoreAnomalies(d) \o detectIQRAnomalies(d)

AllAlerts(d) ==
    detectZScoreAnomalies(d) \o detectIQRAnomalies(d) \o detectSuddenDrops(d)

\* A call of runComprehensiveAnomalyCheck: its local allAlerts and what it
\* returns
ComprehensiveAnomalyCheck(d) ==
    IF Len(d) = 0 THEN [allAlerts |-> <<>>, returned |-> <<>>]
    ELSE LET all == AllAlerts(d)
         IN  [allAlerts |-> all,
              returned  |-> ArraySort(Deduplicate(all, <<>>), "MostRecentFirst")]

runComprehensiveAnomalyCheck(d) == ComprehensiveAnomalyCheck(d).returned

---------------------------------------------------------------------------
(* Demand predictor *)

Quantities(st) == [i \in 1..Len(st) |-> st[i].quantity_sold]

\* data.slice(-window), for data.length >= window
LastValues(dataPoints, window) ==
    SubSeq(dataPoints, Len(dataPoints) - window + 1, Len(dataPoints))

calculateSMA(dataPoints, window) ==
    IF Len(dataPoints) < window THEN RInt(0)
    ELSE Normalized(Rat(SumSeq(LastValues(dataPoints, window)), window))

\* The weights turned around: window - i, the oldest value weighted highest.
WMAWeightsReversed(dataPoints, window) ==
    IF Len(dataPoints) < window THEN RInt(0)
    ELSE LET recentData == LastValues(dataPoints, window)
             weightedTotal ==
                 SumSeq([i \in 1..window |-> recentData[i] * (window + 1 - i)])
             weightSum == SumSeq([i \in 1..window |-> i])
         IN  Normalized(Rat(weightedTotal, weightSum))

calculateWMA(dataPoints, window) ==
    IF Len(dataPoints) < window THEN RInt(0)
    ELSE LET recentData == LastValues(dataPoints, window)
             weightedTotal == SumSeq([i \in 1..window |-> recentData[i] * i])
             weightSum == SumSeq([i \in 1..window |-> i])
         IN  Normalized(Rat(weightedTotal, weightSum))

\* The denominator without its - sumX * sumX.
TrendSlopeUncentred(dataPoints) ==
    LET n == Len(dataPoints)
        sumX == SumSeq([i \in 1..n |-> i - 1])
        sumY == SumSeq(dataPoints)
        sumXY == SumSeq([i \in 1..n |-> (i - 1) * dataPoints[i]])
        sumXX == SumSeq([i \in 1..n |-> (i - 1) * (i - 1)])
    IN  IF n < 2 THEN RInt(0)
        ELSE Normalized(Rat(n * sumXY - sumX * sumY, n * sumXX))

calculateTrendSlope(dataPoints) ==
    LET n == Len(dataPoints)
        \* x = i is the 0-based position
        sumX == SumSeq([i \in 1..n |-> i - 1])
        sumY == SumSeq(dataPoints)
        sumXY == SumSeq([i \in 1..n |-> (i - 1) * dataPoints[i]])
        sumXX == SumSeq([i \in 1..n |-> (i - 1) * (i - 1)])
    IN  IF n < 2 THEN RInt(0)
        ELSE Normalized(Rat(n * sumXY - sumX * sumY, n * sumXX - sumX * sumX))

\* Date.prototype.getDay of a day number (1970-01-01 was a Thursday), in a
\* time zone that is not behind UTC
getDay(day) == (day + 4) % 7

calculateSeasonalityFactor(st, targetDayOfWeek) ==
    LET onTargetDay(stat) == getDay(stat.date) = targetDayOfWeek
        sameDayStats == SelectSeq(st, onTargetDay)
        historicalAverage ==
            Rat(SumSeq(Quantities(sameDayStats)), Len(sameDayStats))
        generalAverage == Rat(SumSeq(Quantities(st)), Len(st))
    IN  IF Len(sameDayStats) = 0 THEN RInt(1)
        ELSE IF generalAverage.n = 0 THEN RInt(1)
        ELSE Normalized(RDiv(historicalAverage, generalAverage))

\* String.prototype.toLowerCase, on the categories of the model
ToLowerCase(str) == IF str = "Fruits" THEN "fruits" ELSE str

\* The lower-case names every object literal inherits from Object.prototype.
ObjectPrototypeKeys == {"constructor", "__proto__"}

\* obj[key] for an object literal obj of numbers: its own number, what it
\* inherits (a function or an object), or undefined.
PropertyOf(obj, key) ==
    IF key \in DOMAIN obj THEN [type |-> "number", number |-> obj[key]]
    ELSE IF key \in ObjectPrototypeKeys THEN [type |-> "object", number |-> NaN]
    ELSE [type |-> "undefined", number |-> NaN]

\* if (value)
Truthy(value) ==
    CASE value.type = "number"    -> ~IsNaN(value.number) /\ value.number.n # 0
      [] value.type = "object"    -> TRUE
      [] value.type = "undefined" -> FALSE

\* The number a value multiplies as: NaN for a function, an object, undefined
ToNumber(value) == value.number

\* The name taken from every event whose range contains the date: the
\* assignment of the name moved out of if (categoryMultiplier).
EventStepNamingEveryEventInRange(acc, event, targetDateStr, category) ==
    LET categoryMultiplier ==
            PropertyOf(event.affectedCategories, ToLowerCase(category))
    IN  IF targetDateStr >= event.startDate /\ targetDateStr <= event.endDate
        THEN [multiplier |->
                  IF Truthy(categoryMultiplier)
                  THEN Normalized(RMul(acc.multiplier,
                                       ToNumber(categoryMultiplier)))
                  ELSE acc.multiplier,
              eventName  |-> <<event.name>>]
        ELSE acc

\* The test of the range without its end: targetDateStr >= event.startDate.
EventStepWithoutEndDate(acc, event, targetDateStr, category) ==
    LET categoryMultiplier ==
            PropertyOf(event.affectedCategories, ToLowerCase(category))
    IN  IF /\ targetDateStr >= event.startDate
           /\ Truthy(categoryMultiplier)
        THEN [multiplier |->
                  Normalized(RMul(acc.multiplier, ToNumber(categoryMultiplier))),
              eventName  |-> <<event.name>>]
        ELSE acc

\* The body of for (const event of activeEvents); an eventName is <<>> for
\* undefined and <<name>> for a name
EventStep(acc, event, targetDateStr, category) ==
    LET categoryMultiplier ==
            PropertyOf(event.affectedCategories, ToLowerCase(category))
    IN  IF /\ targetDateStr >= event.startDate
           /\ targetDateStr <= event.endDate
           /\ Truthy(categoryMultiplier)
        THEN [multiplier |->
                  Normalized(RMul(acc.multiplier, ToNumber(categoryMultiplier))),
              eventName  |-> <<event.name>>]
        ELSE acc

RECURSIVE EventLoop(_, _, _, _)
EventLoop(acc, events, targetDateStr, category) ==
    IF events = <<>> THEN acc
    ELSE EventLoop(EventStep(acc, Head(events), targetDateStr, category),
                   Tail(events), targetDateStr, category)

\* targetDate.toISOString().split('T')[0]: the UTC date of the target moment
ISODate(targetDate) == targetDate.utcDay

calculateEventMultiplier(targetDate, category, events) ==
    EventLoop([multiplier |-> RInt(1), eventName |-> <<>>], events,
              ISODate(targetDate), category)

\* tomorrow.setDate(tomorrow.getDate() + 1): the same time a day later
Tomorrow(now) == [localDay |-> now.localDay + 1, utcDay |-> now.utcDay + 1]

\* Rising from a slope of exactly 0.5 on.
TrendDirectionRisingFromHalf(slope) ==
    IF RLeq(Rat(1, 2), slope) THEN "rising"
    ELSE IF RLt(slope, Rat(-1, 2)) THEN "falling"
    ELSE "stable"

TrendDirection(slope) ==
    IF RLt(Rat(1, 2), slope) THEN "rising"
    ELSE IF RLt(slope, Rat(-1, 2)) THEN "falling"
    ELSE "stable"

\* Math.max(0, Math.round((wma7 + slope) * seasonalityFactor * eventMultiplier))
PredictedQuantity(wma7, slope, seasonalityFactor, eventMultiplier) ==
    RMax(RInt(0),
         RRound(RMul(Normalized(RMul(Normalized(RAdd(wma7, slope)),
                                     seasonalityFactor)),
                     eventMultiplier)))

\* Math.min(100, (dataPoints.length / 30) * 100)
DataVolumeConfidence(dataPoints) ==
    RMin(RInt(100), RMul(Rat(Len(dataPoints), 30), RInt(100)))

\* Math.max(0, 100 - (variance * 10)), then the event adjustment
StabilityConfidence(wma7, sma7, eventMultiplier) ==
    LET variance == RAbs(RSub(wma7, sma7))
        stabilityConfidence ==
            RMax(RInt(0), RSub(RInt(100), RMul(variance, RInt(10))))
    IN  IF ~REq(eventMultiplier, RInt(1))
        THEN RMax(RInt(50), RSub(stabilityConfidence, RInt(10)))
        ELSE stabilityConfidence

ConfidencePercent(dataVolumeConfidence, stabilityConfidence) ==
    RRound(RAdd(RMul(dataVolumeConfidence, Rat(4, 10)),
                RMul(stabilityConfidence, Rat(6, 10))))

\* Math.max(10, Math.min(99, confidencePercent - Math.abs(slope * 5)))
ProbabilityPercent(confidencePercent, slope) ==
    RMax(RInt(10),
         RMin(RInt(99), RSub(confidencePercent, RAbs(RMul(slope, RInt(5))))))

\* eventName && {activeEventImpact: ...}: an undefined or empty name adds
\* nothing
HasEventImpact(eventName) == eventName # <<>> /\ eventName[1] # ""

generatePrediction(productId, category, st, events, now) ==
    LET dataPoints == Quantities(st)
        sma7 == calculateSMA(dataPoints, 7)
        wma7 == calculateWMA(dataPoints, 7)
        slope == calculateTrendSlope(dataPoints)
        tomorrow == Tomorrow(now)
        tomorrowDayOfWeek == getDay(tomorrow.localDay)
        seasonalityFactor == calculateSeasonalityFactor(st, tomorrowDayOfWeek)
        event == calculateEventMultiplier(tomorrow, category, events)
        confidencePercent ==
            ConfidencePercent(DataVolumeConfidence(dataPoints),
                              StabilityConfidence(wma7, sma7, event.multiplier))
        output ==
            [productId                 |-> productId,
             predictedQuantityTomorrow |->
                 PredictedQuantity(wma7, slope, seasonalityFactor,
                                   event.multiplier),
             probabilityPercent        |->
                 RRound(ProbabilityPercent(confidencePercent, slope)),
             confidencePercent         |-> confidencePercent,
             trendDirection            |-> TrendDirection(slope)]
    IN  IF HasEventImpact(event.eventName)
        THEN [f \in DOMAIN output \cup {"activeEventImpact"} |->
                 IF f = "activeEventImpact"
                 THEN <<"Boosted by ", event.eventName[1]>>
                 ELSE output[f]]
        ELSE output

---------------------------------------------------------------------------
(* Stock optimizer *)

\* The sentinel of daysUntilStockout when nothing is projected to sell
NoStockoutDays == 999

\* targetBufferDays
TargetBufferDays == 14

\* How far above leadTimeDays the Medium tier reaches
MediumMargin == 4

\* (item.averageSellRate + prediction.predictedQuantityTomorrow) / 2
ProjectedDailyDemand(it, pred) ==
    RDiv(RAdd(it.averageSellRate, pred.predictedQuantityTomorrow), RInt(2))

\* Math.round in place of Math.floor
DaysUntilStockoutRounded(it, projectedDailyDemand) ==
    IF RLt(RInt(0), projectedDailyDemand)
    THEN MathRound(RDiv(RInt(it.currentStock), projectedDailyDemand))
    ELSE NoStockoutDays

DaysUntilStockout(it, projectedDailyDemand) ==
    IF RLt(RInt(0), projectedDailyDemand)
    THEN MathFloor(RDiv(RInt(it.currentStock), projectedDailyDemand))
    ELSE NoStockoutDays

NeededStock(projectedDailyDemand, lead) ==
    MathRound(RMul(projectedDailyDemand, RInt(TargetBufferDays + lead)))

\* Math.max(0, ...) left out
SuggestedRestockUnclamped(it, neededStock) == neededStock - it.currentStock

SuggestedRestockQuantity(it, neededStock) ==
    IF neededStock - it.currentStock > 0 THEN neededStock - it.currentStock
    ELSE 0

\* The Medium tier ending one day early: < in place of <=
RiskLevelMediumShort(daysUntilStockout, lead) ==
    IF daysUntilStockout <= lead THEN "High"
    ELSE IF daysUntilStockout < lead + MediumMargin THEN "Medium"
    ELSE "Low"

RiskLevel(daysUntilStockout, lead) ==
    IF daysUntilStockout <= lead THEN "High"
    ELSE IF daysUntilStockout <= lead + MediumMargin THEN "Medium"
    ELSE "Low"

\* The template literals, as the sequence of their parts
Recommendation(riskLevel, daysUntilStockout, suggestedRestockQuantity) ==
    IF riskLevel = "High"
    THEN <<"CRITICAL: Order ", suggestedRestockQuantity,
           " units immediately to avoid stockout.">>
    ELSE IF riskLevel = "Medium"
    THEN <<"Warning: Consider restocking ", suggestedRestockQuantity,
           " units soon.">>
    ELSE <<"Stock levels are healthy for the next ", daysUntilStockout,
           " days.">>

optimizeStock(it, pred, lead) ==
    LET projectedDailyDemand == ProjectedDailyDemand(it, pred)
        daysUntilStockout == DaysUntilStockout(it, projectedDailyDemand)
        neededStock == NeededStock(projectedDailyDemand, lead)
        suggestedRestockQuantity == SuggestedRestockQuantity(it, neededStock)
        riskLevel == RiskLevel(daysUntilStockout, lead)
    IN  [productId                |-> it.id,
         daysUntilStockout        |-> daysUntilStockout,
         suggestedRestockQuantity |-> suggestedRestockQuantity,
         riskLevel                |-> riskLevel,
         recommendation           |-> Recommendation(riskLevel, daysUntilStockout,
                                                     suggestedRestockQuantity)]

---------------------------------------------------------------------------
(* Arguments *)

\* A value far above the sample values.
SpikeValue == 5

\* Series of the greatest length that end in a spike after low values.
SpikedSeqs == {low \o <<SpikeValue>> : low \in [1..(MaxLen - 1) -> {0, 1}]}

ValueSeqs == UNION {[1..n -> SampleValues] : n \in 0..MaxLen} \cup SpikedSeqs

\* How the caller dates the points: one day apart going forward, one day
\* apart going backward, or two points to a day.
DateOrders == {"ascending", "descending", "paired"}

DateOf(i, order) ==
    CASE order = "ascending"  -> FirstDay + i
      [] order = "descending" -> FirstDay + MaxLen + 2 - i
      [] order = "paired"     -> FirstDay + ((i + 1) \div 2)

MakeSeries(vals, order) ==
    [i \in 1..Len(vals) |-> [date |-> DateOf(i, order), value |-> vals[i]]]

AllSeries == {MakeSeries(vals, order) : vals \in ValueSeqs, order \in DateOrders}

\* Stock levels: the everyday ones, and one as large as the sentinel.
StockLevels == (0..MaxStock) \cup {NoStockoutDays}

SellRates == {Rat(h, 2) : h \in 0..MaxSellRateHalves}

StockItems ==
    {[id |-> "p1", name |-> "Rice", currentStock |-> st, averageSellRate |-> r] :
        st \in StockLevels, r \in SellRates}

\* optimizeStock reads only predictedQuantityTomorrow of the prediction.
Predictions ==
    {[productId |-> "p1", predictedQuantityTomorrow |-> RInt(q)] :
        q \in 0..MaxPrediction}

\* Lead times: the everyday ones, and two that reach the sentinel.
LeadTimes == (0..MaxLeadTime) \cup {NoStockoutDays - MediumMargin, NoStockoutDays}

NoItem == [id |-> "", name |-> "", currentStock |-> 0, averageSellRate |-> RInt(0)]

NoPrediction == [productId |-> "", predictedQuantityTomorrow |-> RInt(0)]

NoOptimization ==
    [productId |-> "", daysUntilStockout |-> 0, suggestedRestockQuantity |-> 0,
     riskLevel |-> "", recommendation |-> <<>>]

\* The stock optimizer is not in use.
StockIdle ==
    /\ item = NoItem
    /\ leadTimeDays = 0
    /\ optimization = NoOptimization

\* The outlier engine is not in use.
AnomalyIdle ==
    /\ data = <<>>
    /\ alerts = <<>>
    /\ allAlerts = <<>>

\* The quantities a day of a history sells: all of them in a short history,
\* nothing or much in a long one.
SampleQuantities == {0, 1, 40}

LongQuantities == {0, 40}

\* The quantities of a history that sells more every day.
RisingQuantities == {0, 1, 2, 3, 5, 40}

\* The elements of a set of numbers, smallest first.
RECURSIVE Ascending(_)
Ascending(S) ==
    IF S = {} THEN <<>>
    ELSE LET least == CHOOSE x \in S : \A y \in S : x <= y
         IN  <<least>> \o Ascending(S \ {least})

QuantitySeqs ==
    UNION {[1..n -> IF n <= MaxVariedStats THEN SampleQuantities
                    ELSE LongQuantities] : n \in 0..MaxStats}
        \cup {Ascending(S) : S \in SUBSET RisingQuantities}

\* Histories: one DailyStat a day from the day after FirstDay.
AllStats ==
    {[i \in 1..Len(q) |-> [date |-> FirstDay + i, quantity_sold |-> q[i]]] :
        q \in QuantitySeqs}

\* "Fruits" has entries in the events once lower-cased, "dairy" has none,
\* "constructor" is a name every object literal inherits.
Categories == {"Fruits", "dairy", "constructor"}

\* The first UTC date a call is made on.
CallDay == FirstDay + MaxStats + 1

Ramadan ==
    [name |-> "Ramadan", startDate |-> CallDay + 1, endDate |-> CallDay + 30,
     affectedCategories |-> [c \in {"fruits", "dates"} |->
                                IF c = "fruits" THEN Rat(3, 2) ELSE RInt(2)]]

Clearance ==
    [name |-> "Clearance", startDate |-> CallDay, endDate |-> CallDay + 1,
     affectedCategories |-> [c \in {"fruits"} |-> Rat(1, 2)]]

Diwali ==
    [name |-> "Diwali", startDate |-> CallDay + 1, endDate |-> CallDay + 2,
     affectedCategories |-> [c \in {"fruits"} |-> RInt(2)]]

\* An event that starts after the day after CallDay and is over within a week.
Harvest ==
    [name |-> "Harvest", startDate |-> CallDay + 4, endDate |-> CallDay + 5,
     affectedCategories |-> [c \in {"fruits"} |-> RInt(3)]]

EventLists ==
    {<<>>, <<Ramadan, Harvest>>, <<Clearance, Diwali>>, <<Diwali, Ramadan>>}

\* The moments of a call: on CallDay or the day after in UTC, the local date
\* the same or, east of UTC after local midnight, a day ahead; and a week
\* after CallDay.
Clocks ==
    {[localDay |-> CallDay, utcDay |-> CallDay],
     [localDay |-> CallDay + 1, utcDay |-> CallDay],
     [localDay |-> CallDay + 1, utcDay |-> CallDay + 1],
     [localDay |-> CallDay + 7, utcDay |-> CallDay + 7]}

NoClock == [localDay |-> 0, utcDay |-> 0]

NoEventImpact == [multiplier |-> RInt(1), eventName |-> <<>>]

\* The demand predictor is not in use.
PredictionIdle ==
    /\ stats = <<>>
    /\ productCategory = ""
    /\ activeEvents = <<>>
    /\ clock = NoClock
    /\ eventImpact = NoEventImpact

---------------------------------------------------------------------------
(* Cart store *)

\* Most units of a product in the cart.
MaxQuantity == 3

\* The products on sale: what addItem is passed (a product without its
\* quantity), the price in rupees.
Catalog ==
    {[id |-> "p1", name |-> "Rice", price |-> 1],
     [id |-> "p2", name |-> "Milk", price |-> 2],
     [id |-> "p3", name |-> "Soap", price |-> 3]}

ProductIds == {product.id : product \in Catalog}

\* state.items.find((item) => item.id === id)
InCart(state, id) == \E i \in 1..Len(state) : state[i].id = id

addItem(state, newItem) ==
    IF InCart(state, newItem.id)
    THEN [i \in 1..Len(state) |->
             IF state[i].id = newItem.id
             THEN [state[i] EXCEPT !.quantity = @ + 1]
             ELSE state[i]]
    ELSE Append(state, [id |-> newItem.id, name |-> newItem.name,
                        price |-> newItem.price, quantity |-> 1])

removeItem(state, id) == SelectSeq(state, LAMBDA line : line.id # id)

updateQuantity(state, id, quantity) ==
    [i \in 1..Len(state) |->
        IF state[i].id = id
        THEN [state[i] EXCEPT !.quantity = IF quantity > 0 THEN quantity ELSE 0]
        ELSE state[i]]

clearCart == <<>>

\* items.reduce((total, item) => total + item.price * item.quantity, 0)
getTotal(state) == SumSeq([i \in 1..Len(state) |-> state[i].price * state[i].quantity])

\* The quantity of a product in the cart, 0 when it has no line.
QuantityInCart(state, id) ==
    SumSeq([i \in 1..Len(state) |-> IF state[i].id = id THEN state[i].quantity ELSE 0])

---------------------------------------------------------------------------
(* decrementStock *)

\* Largest stock of a product in the table products, and most units one
\* call of decrementStock deducts.
MaxDbStock == 6

MaxSaleQuantity == 3

\* The callers of decrementStock that can run at the same time.
Callers == {1, 2}

\* No invocation of decrementStock by a caller.
NoCall ==
    [pc |-> "none", productId |-> "", quantity |-> 0, productData |-> 0,
     error |-> FALSE]

\* decrementStock(productId, quantity) was called and its select is on the way.
CallOfDecrementStock(productId, quantity) ==
    [pc |-> "fetch", productId |-> productId, quantity |-> quantity,
     productData |-> 0, error |-> FALSE]

\* Math.max(0, productData.current_stock - quantity)
NewStock(productData, quantity) ==
    IF productData - quantity > 0 THEN productData - quantity ELSE 0

---------------------------------------------------------------------------
(* Billing at rest *)

NoStock == [id \in ProductIds |-> 0]

NoRun == [pc |-> "none", items |-> <<>>, total |-> 0, index |-> 0, data |-> 0]

\* handleCheckout is not running.
NoCheckout == [pc |-> "none", items |-> <<>>, total |-> 0, billId |-> 0]

\* The cart is empty, as the store creates it.
CartIdle == items = <<>>

\* The tables are empty and nothing calls decrementStock.
DatabaseIdle ==
    /\ bills = <<>>
    /\ bill_items = <<>>
    /\ current_stock = NoStock
    /\ openingStock = NoStock
    /\ loyalty_points = 0
    /\ stockCalls = [c \in Callers |-> NoCall]

\* The page CreateBill is not open.
CheckoutIdle ==
    /\ paymentState = "idle"
    /\ checkout = NoCheckout
    /\ runs = [c \in Callers |-> NoRun]

BillingIdle == CartIdle /\ DatabaseIdle /\ CheckoutIdle

\* The analytics functions are not in use.
AnalyticsIdle ==
    /\ called = "none"
    /\ prediction = NoPrediction
    /\ AnomalyIdle
    /\ StockIdle
    /\ PredictionIdle

---------------------------------------------------------------------------
(* The outlier engine as a state machine *)

InitAnomaly ==
    /\ called = "none"
    /\ BillingIdle
    /\ data \in AllSeries
    /\ alerts = <<>>
    /\ allAlerts = <<>>
    /\ StockIdle
    /\ prediction = NoPrediction
    /\ PredictionIdle

CallDetectZScoreAnomalies ==
    /\ called = "none"
    /\ alerts' = detectZScoreAnomalies(data)
    /\ called' = "detectZScoreAnomalies"
    /\ UNCHANGED <<data, allAlerts, prediction, stockVars, predictionVars,
                   eventImpact,
                   billingVars>>

CallDetectIQRAnomalies ==
    /\ called = "none"
    /\ alerts' = detectIQRAnomalies(data)
    /\ data' = ArraysAfterIQRSort(data).data
    /\ called' = "detectIQRAnomalies"
    /\ UNCHANGED <<allAlerts, prediction, stockVars, predictionVars, eventImpact,
                   billingVars>>

CallDetectSuddenDrops ==
    /\ called = "none"
    /\ alerts' = detectSuddenDrops(data)
    /\ called' = "detectSuddenDrops"
    /\ UNCHANGED <<data, allAlerts, prediction, stockVars, predictionVars,
                   eventImpact,
                   billingVars>>

CallRunComprehensiveAnomalyCheck ==
    /\ called = "none"
    /\ LET call == ComprehensiveAnomalyCheck(data)
       IN  /\ alerts' = call.returned
           /\ allAlerts' = call.allAlerts
    \* the arrays it sorts: the one of detectIQRAnomalies, and a new one
    /\ data' = ArraysAfterIQRSort(data).data
    /\ called' = "runComprehensiveAnomalyCheck"
    /\ UNCHANGED <<prediction, stockVars, predictionVars, eventImpact,
                   billingVars>>

\* The caller is done with the returned alerts; the series is still its own.
DropAlerts ==
    /\ called \in {"detectZScoreAnomalies", "detectIQRAnomalies",
                  "detectSuddenDrops", "runComprehensiveAnomalyCheck"}
    /\ alerts' = <<>>
    /\ allAlerts' = <<>>
    /\ called' = "none"
    /\ UNCHANGED <<data, prediction, stockVars, predictionVars, eventImpact,
                   billingVars>>

NextAnomaly ==
    \/ CallDetectZScoreAnomalies
    \/ CallDetectIQRAnomalies
    \/ CallDetectSuddenDrops
    \/ CallRunComprehensiveAnomalyCheck
    \/ DropAlerts

SpecAnomaly == InitAnomaly /\ [][NextAnomaly]_vars

---------------------------------------------------------------------------
(* The stock optimizer as a state machine *)

InitStock ==
    /\ called = "none"
    /\ BillingIdle
    /\ item \in StockItems
    /\ prediction \in Predictions
    /\ leadTimeDays \in LeadTimes
    /\ optimization = NoOptimization
    /\ AnomalyIdle
    /\ PredictionIdle

CallOptimizeStock ==
    /\ called = "none"
    /\ optimization' = optimizeStock(item, prediction, leadTimeDays)
    /\ called' = "optimizeStock"
    /\ UNCHANGED <<item, prediction, leadTimeDays, anomalyVars, predictionVars,
                   eventImpact,
                   billingVars>>

\* The caller is done with the recommendation.
DropOptimization ==
    /\ called = "optimizeStock"
    /\ optimization' = NoOptimization
    /\ called' = "none"
    /\ UNCHANGED <<item, prediction, leadTimeDays, anomalyVars, predictionVars,
                   eventImpact,
                   billingVars>>

NextStock ==
    \/ CallOptimizeStock
    \/ DropOptimization

SpecStock == InitStock /\ [][NextStock]_vars

---------------------------------------------------------------------------
(* The demand predictor as a state machine *)

InitPrediction ==
    /\ called = "none"
    /\ BillingIdle
    /\ stats \in AllStats
    /\ productCategory \in Categories
    /\ activeEvents \in EventLists
    /\ clock \in Clocks
    /\ prediction = NoPrediction
    /\ eventImpact = NoEventImpact
    /\ AnomalyIdle
    /\ StockIdle

CallGeneratePrediction ==
    /\ called = "none"
    /\ prediction' =
           generatePrediction("p1", productCategory, stats, activeEvents, clock)
    /\ eventImpact' =
           calculateEventMultiplier(Tomorrow(clock), productCategory, activeEvents)
    /\ called' = "generatePrediction"
    /\ UNCHANGED <<predictionVars, anomalyVars, stockVars,
                   billingVars>>

\* The caller is done with the prediction.
DropPrediction ==
    /\ called = "generatePrediction"
    /\ prediction' = NoPrediction
    /\ eventImpact' = NoEventImpact
    /\ called' = "none"
    /\ UNCHANGED <<predictionVars, anomalyVars, stockVars,
                   billingVars>>

NextPrediction ==
    \/ CallGeneratePrediction
    \/ DropPrediction

SpecPrediction == InitPrediction /\ [][NextPrediction]_vars

---------------------------------------------------------------------------
(* The cart store as a state machine *)

InitCart == AnalyticsIdle /\ BillingIdle

\* A tap on a product or a scan of its barcode.
AddItem ==
    \E product \in Catalog :
        /\ QuantityInCart(items, product.id) < MaxQuantity
        /\ items' = addItem(items, product)
        /\ UNCHANGED <<analyticsVars, databaseVars, checkoutVars, stockCalls>>

RemoveItem ==
    \E id \in ProductIds :
        /\ items' = removeItem(items, id)
        /\ UNCHANGED <<analyticsVars, databaseVars, checkoutVars, stockCalls>>

\* The buttons of a line pass its quantity less 1 or plus 1; the store takes
\* any number.
UpdateQuantity ==
    \E id \in ProductIds, quantity \in -1..MaxQuantity :
        /\ items' = updateQuantity(items, id, quantity)
        /\ UNCHANGED <<analyticsVars, databaseVars, checkoutVars, stockCalls>>

ClearCart ==
    /\ items' = clearCart
    /\ UNCHANGED <<analyticsVars, databaseVars, checkoutVars, stockCalls>>

NextCart ==
    \/ AddItem
    \/ RemoveItem
    \/ UpdateQuantity
    \/ ClearCart

SpecCart == InitCart /\ [][NextCart]_vars

---------------------------------------------------------------------------
(* Two calls of decrementStock as a state machine *)

\* The select of a call reaches the table: the call holds the row it read.
DecrementStockFetch(c) ==
    /\ stockCalls[c].pc = "fetch"
    /\ stockCalls' =
           [stockCalls EXCEPT
               ![c].pc = "update",
               ![c].productData = current_stock[stockCalls[c].productId]]
    /\ UNCHANGED <<analyticsVars, cartVars, databaseVars, checkoutVars>>

\* The select fails: the error is logged and the call returns.
DecrementStockFetchError(c) ==
    /\ stockCalls[c].pc = "fetch"
    /\ stockCalls' = [stockCalls EXCEPT ![c].pc = "returned", ![c].error = TRUE]
    /\ UNCHANGED <<analyticsVars, cartVars, databaseVars, checkoutVars>>

\* The update of a call reaches the table.
DecrementStockUpdate(c) ==
    /\ stockCalls[c].pc = "update"
    /\ current_stock' =
           [current_stock EXCEPT
               ![stockCalls[c].productId] =
                   NewStock(stockCalls[c].productData, stockCalls[c].quantity)]
    /\ stockCalls' = [stockCalls EXCEPT ![c].pc = "returned"]
    /\ UNCHANGED <<analyticsVars, cartVars, checkoutVars, bills, bill_items,
                   openingStock, loyalty_points>>

\* The update fails: the error is logged and the row stays as it was.
DecrementStockUpdateError(c) ==
    /\ stockCalls[c].pc = "update"
    /\ stockCalls' = [stockCalls EXCEPT ![c].pc = "returned", ![c].error = TRUE]
    /\ UNCHANGED <<analyticsVars, cartVars, databaseVars, checkoutVars>>

\* Two sales of the product p1 are being deducted from its stock.
InitDecrement ==
    /\ AnalyticsIdle
    /\ CartIdle
    /\ CheckoutIdle
    /\ bills = <<>>
    /\ bill_items = <<>>
    /\ loyalty_points = 0
    /\ current_stock \in {[NoStock EXCEPT !["p1"] = s] : s \in 0..MaxDbStock}
    /\ openingStock = current_stock
    /\ stockCalls \in
           [Callers -> {CallOfDecrementStock("p1", quantity) :
                            quantity \in 1..MaxSaleQuantity}]

NextDecrement ==
    \E c \in Callers :
        \/ DecrementStockFetch(c)
        \/ DecrementStockFetchError(c)
        \/ DecrementStockUpdate(c)
        \/ DecrementStockUpdateError(c)

SpecDecrement == InitDecrement /\ [][NextDecrement]_vars

---------------------------------------------------------------------------
(* The checkout of CreateBill as a state machine *)

\* Most bills inserted.
MaxBills == 2

\* The line of a product in the cart.
Line(product, quantity) ==
    [id |-> product.id, name |-> product.name, price |-> product.price,
     quantity |-> quantity]

\* The carts brought to the checkout: one or two lines of different
\* products, as addItem and updateQuantity leave them.
Carts ==
    {<<Line(product, quantity)>> :
        product \in Catalog, quantity \in {1, MaxQuantity}}
    \cup {<<Line(first, 1), Line(second, 2)>> :
             first \in {product \in Catalog : product.id = "p1"},
             second \in {product \in Catalog : product.id = "p2"}}

\* The page is open on a cart, the stock is full and nothing is paid.
InitCheckout ==
    /\ AnalyticsIdle
    /\ CheckoutIdle
    /\ items \in Carts
    /\ bills = <<>>
    /\ bill_items = <<>>
    /\ loyalty_points = 0
    /\ current_stock = [id \in ProductIds |-> MaxDbStock]
    /\ openingStock = current_stock
    /\ stockCalls = [c \in Callers |-> NoCall]

\* handleCheckout, from the button Pay & Generate Pass: enabled for a cart
\* with a line while paymentState is 'idle'.
ClickCheckout ==
    /\ items # <<>>
    /\ paymentState = "idle"
    /\ checkout.pc = "none"
    /\ Len(bills) < MaxBills
    /\ paymentState' = "generating"
    /\ checkout' = [pc |-> "bills", items |-> items, total |-> getTotal(items),
                    billId |-> 0]
    /\ UNCHANGED <<analyticsVars, cartVars, databaseVars, stockCalls, runs>>

\* The insert into bills returns the new row.
CheckoutInsertBill ==
    /\ checkout.pc = "bills"
    /\ bills' = Append(bills, [total_amount |-> checkout.total])
    /\ checkout' = [checkout EXCEPT !.pc = "bill_items", !.billId = Len(bills) + 1]
    /\ UNCHANGED <<analyticsVars, cartVars, bill_items, current_stock,
                   openingStock, loyalty_points, stockCalls, paymentState, runs>>

\* The insert into bill_items is done; the payment QR is drawn next.
CheckoutInsertItems ==
    /\ checkout.pc = "bill_items"
    /\ bill_items' =
           bill_items \o
               [i \in 1..Len(checkout.items) |->
                   [bill_id    |-> checkout.billId,
                    product_id |-> checkout.items[i].id,
                    quantity   |-> checkout.items[i].quantity,
                    subtotal   |-> checkout.items[i].price
                                       * checkout.items[i].quantity]]
    /\ checkout' = [checkout EXCEPT !.pc = "qr"]
    /\ UNCHANGED <<analyticsVars, cartVars, bills, current_stock, openingStock,
                   loyalty_points, stockCalls, paymentState, runs>>

\* QRCode.toDataURL returned: the payment QR is shown.
CheckoutShowQR ==
    /\ checkout.pc = "qr"
    /\ paymentState' = "qr"
    /\ checkout' = NoCheckout
    /\ UNCHANGED <<analyticsVars, cartVars, databaseVars, stockCalls, runs>>

\* An insert or the drawing of the QR failed: the catch block.
CheckoutFails ==
    /\ checkout.pc \in {"bills", "bill_items", "qr"}
    /\ paymentState' = "idle"
    /\ checkout' = NoCheckout
    /\ UNCHANGED <<analyticsVars, cartVars, databaseVars, stockCalls, runs>>

\* The button Cancel under the payment QR.
CancelPayment ==
    /\ paymentState = "qr"
    /\ paymentState' = "idle"
    /\ UNCHANGED <<analyticsVars, cartVars, databaseVars, stockCalls, checkout,
                   runs>>

\* The next step of handlePaymentSuccess after the cart lines up to index
\* have been deducted: decrementStock for the next line, or addLoyaltyPoints
\* after the last.
AfterLine(run, index) ==
    IF index < Len(run.items)
    THEN [run EXCEPT !.pc = "decrementStock", !.index = index + 1]
    ELSE [run EXCEPT !.pc = "addLoyaltyPoints:fetch", !.index = index]

\* The call of decrementStock a run is waiting for.
CallOfRun(run, call) ==
    IF run.pc = "decrementStock"
    THEN CallOfDecrementStock(run.items[run.index].id,
                              run.items[run.index].quantity)
    ELSE call

\* handlePaymentSuccess, from a click on the payment QR, which is shown
\* while paymentState is 'qr'.  It runs up to its first await.
ClickPaymentQR(r) ==
    /\ paymentState = "qr"
    /\ runs[r].pc = "none"
    /\ \A earlier \in Callers : earlier < r => runs[earlier].pc # "none"
    /\ LET run == AfterLine([NoRun EXCEPT !.items = items,
                                          !.total = getTotal(items)], 0)
       IN  /\ runs' = [runs EXCEPT ![r] = run]
           /\ stockCalls' = [stockCalls EXCEPT ![r] = CallOfRun(run, @)]
    /\ UNCHANGED <<analyticsVars, cartVars, databaseVars, paymentState, checkout>>

\* decrementStock returned to the loop of handlePaymentSuccess.
ResumeAfterDecrementStock(r) ==
    /\ runs[r].pc = "decrementStock"
    /\ stockCalls[r].pc = "returned"
    /\ LET run == AfterLine(runs[r], runs[r].index)
       IN  /\ runs' = [runs EXCEPT ![r] = run]
           /\ stockCalls' = [stockCalls EXCEPT ![r] = CallOfRun(run, @)]
    /\ UNCHANGED <<analyticsVars, cartVars, databaseVars, paymentState, checkout>>

\* Math.floor(totalAmount * 30), for a total in whole rupees
PointsToEarn(totalAmount) == totalAmount * 30

\* The select of addLoyaltyPoints reaches the table profiles.
AddLoyaltyPointsFetch(r) ==
    /\ runs[r].pc = "addLoyaltyPoints:fetch"
    /\ runs' = [runs EXCEPT ![r].pc = "addLoyaltyPoints:update",
                            ![r].data = loyalty_points]
    /\ UNCHANGED <<analyticsVars, cartVars, databaseVars, stockCalls,
                   paymentState, checkout>>

\* The update of addLoyaltyPoints reaches the table profiles.
AddLoyaltyPointsUpdate(r) ==
    /\ runs[r].pc = "addLoyaltyPoints:update"
    /\ loyalty_points' = runs[r].data + PointsToEarn(runs[r].total)
    /\ runs' = [runs EXCEPT ![r].pc = "generateExitPass"]
    /\ UNCHANGED <<analyticsVars, cartVars, bills, bill_items, current_stock,
                   openingStock, stockCalls, paymentState, checkout>>

\* The select or the update of addLoyaltyPoints fails: it returns 0.
AddLoyaltyPointsError(r) ==
    /\ runs[r].pc \in {"addLoyaltyPoints:fetch", "addLoyaltyPoints:update"}
    /\ runs' = [runs EXCEPT ![r].pc = "generateExitPass"]
    /\ UNCHANGED <<analyticsVars, cartVars, databaseVars, stockCalls,
                   paymentState, checkout>>

\* generateExitPass returned a pass or null: 'success' is shown and the
\* timer of 30 s is set.
ShowSuccess(r) ==
    /\ runs[r].pc = "generateExitPass"
    /\ paymentState' = "success"
    /\ runs' = [runs EXCEPT ![r].pc = "setTimeout"]
    /\ UNCHANGED <<analyticsVars, cartVars, databaseVars, stockCalls, checkout>>

\* QRCode.toDataURL of the pass throws: the catch block logs it.
FinalizingFails(r) ==
    /\ runs[r].pc = "generateExitPass"
    /\ runs' = [runs EXCEPT ![r].pc = "returned"]
    /\ UNCHANGED <<analyticsVars, cartVars, databaseVars, stockCalls,
                   paymentState, checkout>>

\* The timer of a run fires: the cart is cleared and the page is idle again.
TimerFires(r) ==
    /\ runs[r].pc = "setTimeout"
    /\ items' = clearCart
    /\ paymentState' = "idle"
    /\ runs' = [runs EXCEPT ![r].pc = "returned"]
    /\ UNCHANGED <<analyticsVars, databaseVars, stockCalls, checkout>>

NextCheckout ==
    \/ ClickCheckout
    \/ CheckoutInsertBill
    \/ CheckoutInsertItems
    \/ CheckoutShowQR
    \/ CheckoutFails
    \/ CancelPayment
    \/ \E r \in Callers :
           \/ ClickPaymentQR(r)
           \/ DecrementStockFetch(r)
           \/ DecrementStockFetchError(r)
           \/ DecrementStockUpdate(r)
           \/ DecrementStockUpdateError(r)
           \/ ResumeAfterDecrementStock(r)
           \/ AddLoyaltyPointsFetch(r)
           \/ AddLoyaltyPointsUpdate(r)
           \/ AddLoyaltyPointsError(r)
           \/ ShowSuccess(r)
           \/ FinalizingFails(r)
           \/ TimerFires(r)

SpecCheckout == InitCheckout /\ [][NextCheckout]_vars

---------------------------------------------------------------------------
(* Properties of the outlier engine *)

\* The positions 1..n that satisfy P, in increasing order.
PositionsWhere(n, P(_)) == SelectSeq([i \in 1..n |-> i], P)

\* The candidates among all that carry a given date.
CandidatesFor(all, date) == {k \in 1..Len(all) : all[k].date = date}

\* C1: runComprehensiveAnomalyCheck never returns two alerts with the same
\* date, and the alert returned for a date has the severity of a candidate
\* for that date whose rank (critical > warning > success > info) no other
\* candidate for that date exceeds.
C1_OneAlertPerDateOfHighestRank ==
    called = "runComprehensiveAnomalyCheck" =>
        LET all == allAlerts
        IN  /\ \A i, j \in 1..Len(alerts) :
                   i # j => alerts[i].date # alerts[j].date
            /\ \A i \in 1..Len(alerts) :
                   /\ \E k \in CandidatesFor(all, alerts[i].date) :
                          all[k].severity = alerts[i].severity
                   /\ \A k \in CandidatesFor(all, alerts[i].date) :
                          SeverityRank(all[k].severity)
                              <= SeverityRank(alerts[i].severity)

\* C1's case: a returned date had candidates of three different ranks.
C1_Witness ==
    /\ called = "runComprehensiveAnomalyCheck"
    /\ LET all == allAlerts
       IN  \E i \in 1..Len(alerts) :
               Cardinality({SeverityRank(all[k].severity) :
                               k \in CandidatesFor(all, alerts[i].date)}) = 3

\* C2: the list runComprehensiveAnomalyCheck returns is sorted by date
\* strictly descending.
C2_SortedStrictlyDescending ==
    called = "runComprehensiveAnomalyCheck" =>
        \A i \in 1..(Len(alerts) - 1) :
            getTime(alerts[i].date) > getTime(alerts[i + 1].date)

\* C2's case: three or more alerts that the deduplication left in another
\* order than the one returned.
C2_Witness ==
    /\ called = "runComprehensiveAnomalyCheck"
    /\ Len(alerts) >= 3
    /\ Deduplicate(allAlerts, <<>>) # alerts

\* The candidates for a date that no candidate for that date outranks.
HighestRanked(all, date) ==
    {k \in CandidatesFor(all, date) :
        \A j \in CandidatesFor(all, date) :
            SeverityRank(all[j].severity) <= SeverityRank(all[k].severity)}

\* C15: the alert runComprehensiveAnomalyCheck returns for a date is, of the
\* candidates of the highest rank for that date, the one that comes first in
\* the order Z-Score alerts, IQR alerts, Sudden Drop alerts.
C15_FirstOfHighestRankSurvives ==
    called = "runComprehensiveAnomalyCheck" =>
        LET all == allAlerts
        IN  \A i \in 1..Len(alerts) :
                LET best == HighestRanked(all, alerts[i].date)
                    first == CHOOSE k \in best : \A j \in best : k <= j
                IN  alerts[i] = all[first]

\* C15's case: for a returned date a Z-Score alert and an IQR alert share the
\* highest rank.
C15_Witness ==
    /\ called = "runComprehensiveAnomalyCheck"
    /\ LET all == allAlerts
       IN  \E i \in 1..Len(alerts) :
               /\ alerts[i].method = "Z-Score"
               /\ \E k \in HighestRanked(all, alerts[i].date) :
                      all[k].method = "IQR"

ScaledDeviations(d) ==
    LET sum == SumSeq(Values(d))
    IN  [i \in 1..Len(d) |-> Len(d) * d[i].value - sum]

SumOfSquares(s) == SumSeq([i \in 1..Len(s) |-> s[i] * s[i]])

\* C4: detectZScoreAnomalies returns [] for a series of standard deviation 0;
\* otherwise its alerts are, in order, one for each point more than 2.5
\* population standard deviations from the mean and none for another point,
\* success above the mean and warning below.  With dev_i = n*v_i - sum,
\* |v_i - mean| / sigma > 2.5 is 4 * n * dev_i^2 > 25 * sum_j dev_j^2.
C4_ZScoreFlagsExactlyBeyondThreshold ==
    called = "detectZScoreAnomalies" =>
        LET dev == ScaledDeviations(data)
            total == SumOfSquares(dev)
            beyond(i) == 4 * Len(data) * dev[i] * dev[i] > 25 * total
            expected == PositionsWhere(Len(data), beyond)
        IN  IF total = 0 THEN alerts = <<>>
            ELSE /\ Len(alerts) = Len(expected)
                 /\ \A k \in 1..Len(alerts) :
                        /\ alerts[k].date = data[expected[k]].date
                        /\ alerts[k].value = data[expected[k]].value
                        /\ alerts[k].method = "Z-Score"
                        /\ alerts[k].severity =
                               IF dev[expected[k]] > 0
                               THEN "success" ELSE "warning"

\* C4's case: a point below the mean was flagged.
C4_Witness ==
    /\ called = "detectZScoreAnomalies"
    /\ \E k \in 1..Len(alerts) : alerts[k].severity = "warning"

\* The dates of a list of alerts.
DatesOf(list) == {list[k].date : k \in 1..Len(list)}

\* The alerts of a list, as a set.
AlertsOf(list) == {list[k] : k \in 1..Len(list)}

\* What the three detectors return for a series, each called on its own.
DetectorAlerts(d) ==
    AlertsOf(detectZScoreAnomalies(d)) \cup AlertsOf(detectIQRAnomalies(d))
        \cup AlertsOf(detectSuddenDrops(d))

\* C23: runComprehensiveAnomalyCheck loses and invents nothing: the dates of
\* its output are the dates flagged by detectZScoreAnomalies,
\* detectIQRAnomalies or detectSuddenDrops on the same series, every alert
\* it returns is, field for field, an alert one of them produced, and an
\* empty series gives an empty result.
C23_FusionLosesAndInventsNothing ==
    called = "runComprehensiveAnomalyCheck" =>
        LET produced == DetectorAlerts(data)
        IN  /\ DatesOf(alerts) = {a.date : a \in produced}
            /\ AlertsOf(alerts) \subseteq produced
            /\ data = <<>> => alerts = <<>>

\* C23's case: the detectors produced more alerts than dates, and the
\* output holds alerts of two methods.
C23_Witness ==
    /\ called = "runComprehensiveAnomalyCheck"
    /\ Len(alerts) >= 2
    /\ Len(alerts) < Len(allAlerts)
    /\ \E j, k \in 1..Len(alerts) : alerts[j].method # alerts[k].method

\* The positions in a list of alerts of the alerts of a method for a date.
AlertsBy(all, method, date) ==
    {k \in 1..Len(all) : all[k].method = method /\ all[k].date = date}

\* Both detectors flagged the same point (a point of the same date and
\* value) and gave it the same severity.
SamePointSameSeverity(all) ==
    \A i, j \in 1..Len(all) :
        (/\ all[i].method = "Z-Score"
         /\ all[j].method = "IQR"
         /\ all[i].date = all[j].date
         /\ all[i].value = all[j].value) =>
            all[i].severity = all[j].severity

\* During the fusion an IQR alert replaced the Z-Score alert kept for its
\* date: its rank is above the rank of every Z-Score alert of the date.
IQRReplacesZScore(all) ==
    \E i \in 1..Len(all) :
        /\ all[i].method = "IQR"
        /\ AlertsBy(all, "Z-Score", all[i].date) # {}
        /\ \A j \in AlertsBy(all, "Z-Score", all[i].date) :
               SeverityRank(all[i].severity) > SeverityRank(all[j].severity)

\* No two points of the series carry the same date.
DistinctDates(d) == \A i, j \in 1..Len(d) : i # j => d[i].date # d[j].date

\* C24 as stated: whenever detectZScoreAnomalies and detectIQRAnomalies both
\* flag the same point they give it the same severity, and in the fusion of
\* runComprehensiveAnomalyCheck an IQR alert never replaces a Z-Score alert
\* for the same date.
C24_IQRNeverReplacesZScore ==
    called = "runComprehensiveAnomalyCheck" =>
        /\ SamePointSameSeverity(allAlerts)
        /\ ~IQRReplacesZScore(allAlerts)

\* C24 amended: the two detectors give a point they both flag the same
\* severity; an IQR alert never replaces a Z-Score alert in a series whose
\* dates are distinct, and in any series the alert returned for a point
\* both flagged is never the IQR one.
C24_IQRNeverReplacesZScoreOfSamePoint ==
    called = "runComprehensiveAnomalyCheck" =>
        /\ SamePointSameSeverity(allAlerts)
        /\ DistinctDates(data) => ~IQRReplacesZScore(allAlerts)
        /\ \A k \in 1..Len(alerts) :
               alerts[k].method = "IQR" =>
                   \A j \in AlertsBy(allAlerts, "Z-Score", alerts[k].date) :
                       allAlerts[j].value # alerts[k].value

\* C24's case: in a series of distinct dates both detectors flagged a
\* point, and the alert returned for it is the Z-Score one.
C24_Witness ==
    /\ called = "runComprehensiveAnomalyCheck"
    /\ DistinctDates(data)
    /\ \E k \in 1..Len(alerts) :
           /\ alerts[k].method = "Z-Score"
           /\ \E j \in AlertsBy(allAlerts, "IQR", alerts[k].date) :
                  allAlerts[j].value = alerts[k].value

\* C25: with the default threshold 2.5 detectZScoreAnomalies returns no
\* alert for a series of 7 or fewer points, whatever its values: no point of
\* n points is more than sqrt(n - 1) population standard deviations from the
\* mean, and sqrt(6) < 2.5.
C25_NoZScoreAlertUpToSevenPoints ==
    (called = "detectZScoreAnomalies" /\ Len(data) <= 7) => alerts = <<>>

\* C25's case: 7 points, 6 of one value and 1 of another, the series where a
\* point is farthest from the mean.
C25_Witness ==
    /\ called = "detectZScoreAnomalies"
    /\ Len(data) = 7
    /\ \E i \in 1..7 :
           /\ data[i].value = 3
           /\ \A j \in 1..7 : j # i => data[j].value = 0
    /\ alerts = <<>>

\* |x| for an integer x
AbsInt(x) == IF x < 0 THEN -x ELSE x

\* round(100 * num / den) for integers num >= 0 and den > 0, a tie going up.
RoundedPercent(num, den) == (200 * num + den) \div (2 * den)

\* The percent figure in the explanation of an alert.
PercentFigure(alert) == alert.explanation[2]

FlatThenLarger(d) ==
    /\ Len(d) >= 8
    /\ \A i \in 1..(Len(d) - 1) : d[i].value = d[1].value
    /\ d[Len(d)].value > d[1].value

\* C12: for 7 or more points of one value followed by one point of a larger
\* value, detectZScoreAnomalies returns exactly one alert, for the larger
\* point, of severity success and title 'Sudden Popularity Spike'.
C12_LoneLargerPointIsTheOnlySpike ==
    (called = "detectZScoreAnomalies" /\ FlatThenLarger(data)) =>
        /\ Len(alerts) = 1
        /\ alerts[1].date = data[Len(data)].date
        /\ alerts[1].value = data[Len(data)].value
        /\ alerts[1].severity = "success"
        /\ alerts[1].title = "Sudden Popularity Spike"

\* C12's case: the points before the larger one are not 0, so the mean is
\* not the larger value shared out.
C12_Witness ==
    /\ called = "detectZScoreAnomalies"
    /\ FlatThenLarger(data)
    /\ data[1].value > 0
    /\ Len(alerts) = 1

\* The value at 0-based position k of the values of d in ascending order:
\* at most k values are below it and more than k are at most it.
OrderStatistic(d, k) ==
    CHOOSE x \in {d[i].value : i \in 1..Len(d)} :
        /\ Cardinality({i \in 1..Len(d) : d[i].value < x}) <= k
        /\ Cardinality({i \in 1..Len(d) : d[i].value <= x}) > k

\* C5: detectIQRAnomalies returns [] for fewer than 4 points; otherwise its
\* alerts are, in order, one for each point strictly outside the fences
\* Q1 - 1.5*IQR and Q3 + 1.5*IQR (Q1 and Q3 taken at floor(n*0.25) and
\* floor(n*0.75) of the ascending values), success above and warning below.
\* The comparisons are doubled to stay in the integers.
C5_IQRFlagsExactlyOutsideFences ==
    called = "detectIQRAnomalies" =>
        IF Len(data) < 4 THEN alerts = <<>>
        ELSE LET q1 == OrderStatistic(data, Len(data) \div 4)
                 q3 == OrderStatistic(data, (3 * Len(data)) \div 4)
                 below(i) == 2 * data[i].value < 2 * q1 - 3 * (q3 - q1)
                 above(i) == 2 * data[i].value > 2 * q3 + 3 * (q3 - q1)
                 outside(i) == below(i) \/ above(i)
                 expected == PositionsWhere(Len(data), outside)
             IN  /\ Len(alerts) = Len(expected)
                 /\ \A k \in 1..Len(alerts) :
                        /\ alerts[k].date = data[expected[k]].date
                        /\ alerts[k].value = data[expected[k]].value
                        /\ alerts[k].method = "IQR"
                        /\ alerts[k].severity =
                               IF above(expected[k])
                               THEN "success" ELSE "warning"

\* C5's case: the quartiles differ, a point above the upper fence is flagged
\* and the other points are not.
C5_Witness ==
    /\ called = "detectIQRAnomalies"
    /\ Len(data) >= 4
    /\ OrderStatistic(data, (3 * Len(data)) \div 4)
           > OrderStatistic(data, Len(data) \div 4)
    /\ \E k \in 1..Len(alerts) : alerts[k].severity = "success"
    /\ Len(alerts) < Len(data)

\* The sum of the 7 values before position i.
WindowSum(d, i) == SumSeq([j \in 1..7 |-> d[i - 8 + j].value])

\* C6: detectSuddenDrops returns [] for fewer than 8 points; otherwise its
\* alerts are, in order, one critical alert for each point from the 8th on
\* whose 7 predecessors have a non-zero mean m with (m - value)/m*100 >= 40,
\* and none for another point.  With the window's sum s > 0 the condition
\* is 100 * (s - 7*value) >= 40 * s.
C6_SuddenDropFlagsExactlyFortyPercentDrops ==
    called = "detectSuddenDrops" =>
        IF Len(data) < 8 THEN alerts = <<>>
        ELSE LET dropped(i) ==
                     /\ i > 7
                     /\ WindowSum(data, i) > 0
                     /\ 100 * (WindowSum(data, i) - 7 * data[i].value)
                            >= 40 * WindowSum(data, i)
                 expected == PositionsWhere(Len(data), dropped)
             IN  /\ Len(alerts) = Len(expected)
                 /\ \A k \in 1..Len(alerts) :
                        /\ expected[k] > 7
                        /\ alerts[k].date = data[expected[k]].date
                        /\ alerts[k].value = data[expected[k]].value
                        /\ alerts[k].method = "Sudden Drop"
                        /\ alerts[k].severity = "critical"

\* C6's case: a point that is not 0 was flagged.
C6_Witness ==
    /\ called = "detectSuddenDrops"
    /\ \E k \in 1..Len(alerts) : alerts[k].value > 0

---------------------------------------------------------------------------
(* Properties of the demand predictor *)

\* x is an integer between lo and hi.
IsIntegerWithin(x, lo, hi) ==
    /\ ~IsNaN(x)
    /\ x.n % x.d = 0
    /\ lo * x.d <= x.n
    /\ x.n <= hi * x.d

\* x is an integer and not negative.
IsNaturalNumber(x) == ~IsNaN(x) /\ x.n % x.d = 0 /\ x.n >= 0

PredictionWithinRanges ==
    /\ IsNaturalNumber(prediction.predictedQuantityTomorrow)
    /\ IsIntegerWithin(prediction.confidencePercent, 0, 100)
    /\ IsIntegerWithin(prediction.probabilityPercent, 10, 99)

\* C3: for every history of non-negative integer quantities, every category
\* and every list of events with positive multipliers, generatePrediction
\* returns an integer predictedQuantityTomorrow >= 0, an integer
\* confidencePercent in [0,100] and an integer probabilityPercent in [10,99].
C3_PredictionWithinRanges ==
    called = "generatePrediction" => PredictionWithinRanges

\* The ranges hold for a category that names no inherited property.
PredictionWithinRangesForOwnCategories ==
    (/\ called = "generatePrediction"
     /\ ToLowerCase(productCategory) \notin ObjectPrototypeKeys) =>
        PredictionWithinRanges

\* The ranges hold for the inherited name too while no event covers the
\* target date.
PredictionWithinRangesWithoutEvents ==
    (called = "generatePrediction" /\ activeEvents = <<>>) =>
        PredictionWithinRanges

\* The UTC date is within the event's range, both ends included.
Covers(event, date) == event.startDate <= date /\ date <= event.endDate

\* Seen from the moments c1 and c2, tomorrow is the same local day of the
\* week and within the ranges of the same events.
SameTomorrow(c1, c2, events) ==
    /\ (c1.localDay + 1 + 4) % 7 = (c2.localDay + 1 + 4) % 7
    /\ \A k \in 1..Len(events) :
           Covers(events[k], c1.utcDay + 1) <=> Covers(events[k], c2.utcDay + 1)

\* C13 as stated: generatePrediction returns the same record for the same
\* productId, category, history and events at whatever moment it runs.
C13_SameArgumentsSameOutput ==
    called = "generatePrediction" =>
        \A c \in Clocks :
            generatePrediction("p1", productCategory, stats, activeEvents, c)
                = prediction

\* C13 as amended: generatePrediction returns the same record for the same
\* productId, category, history and events at two moments from which
\* tomorrow is the same local day of the week and within the ranges of the
\* same events.
C13_SameOutputForSameTomorrow ==
    called = "generatePrediction" =>
        \A c \in Clocks :
            SameTomorrow(clock, c, activeEvents) =>
                generatePrediction("p1", productCategory, stats, activeEvents, c)
                    = prediction

\* C13's case: another moment with the same tomorrow, an event that applies
\* and one that is over in between, and a weekday factor other than 1.
C13_Witness ==
    /\ called = "generatePrediction"
    /\ \E c \in Clocks : c # clock /\ SameTomorrow(clock, c, activeEvents)
    /\ \E k \in 1..Len(activeEvents) : ~Covers(activeEvents[k], clock.utcDay + 1)
    /\ "activeEventImpact" \in DOMAIN prediction
    /\ ~REq(calculateSeasonalityFactor(stats, getDay(clock.localDay + 1)), RInt(1))
    /\ prediction.predictedQuantityTomorrow.n > 0

\* The last 7 quantities weighted 7 for the newest down to 1, over 28.
WeightedAverageOfLastSeven(st) ==
    Rat(SumSeq([j \in 1..7 |-> (8 - j) * st[Len(st) + 1 - j].quantity_sold]), 28)

\* The least-squares slope of the quantities against their positions, as
\* the covariance over the variance of the positions: with c_i = 2i - n - 1,
\* twice the sum of c_i * y_i over the sum of c_i squared.
LeastSquaresSlope(st) ==
    LET n == Len(st)
    IN  Rat(2 * SumSeq([i \in 1..n |-> (2 * i - n - 1) * st[i].quantity_sold]),
            SumSeq([i \in 1..n |-> (2 * i - n - 1) * (2 * i - n - 1)]))

\* p is max(0, round(x)) for a number x: a natural number, within a half of
\* x (a tie going up) when it is positive, and x below a half when it is 0.
IsRoundedAndClamped(p, x) ==
    /\ IsNaturalNumber(p)
    /\ p.n > 0 => /\ (2 * p.n - p.d) * x.d <= 2 * x.n * p.d
                  /\ 2 * x.n * p.d < (2 * p.n + p.d) * x.d
    /\ p.n = 0 => 2 * x.n < x.d

ShortHistoryForecast ==
    LET dataPoints == Quantities(stats)
        sma7 == calculateSMA(dataPoints, 7)
        wma7 == calculateWMA(dataPoints, 7)
        slope == calculateTrendSlope(dataPoints)
        seasonalityFactor ==
            calculateSeasonalityFactor(stats, getDay(clock.localDay + 1))
        forecast == Normalized(RMul(Normalized(RMul(slope, seasonalityFactor)),
                                    eventImpact.multiplier))
    IN  /\ sma7 = RInt(0)
        /\ wma7 = RInt(0)
        /\ IF IsNaN(forecast)
           THEN IsNaN(prediction.predictedQuantityTomorrow)
           ELSE IsRoundedAndClamped(prediction.predictedQuantityTomorrow, forecast)
        /\ REq(StabilityConfidence(wma7, sma7, RInt(1)), RInt(100))
        /\ Len(stats) <= 1 =>
               /\ slope = RInt(0)
               /\ prediction.predictedQuantityTomorrow = RInt(0)
               /\ prediction.trendDirection = "stable"

\* C17: for a history of fewer than 7 points SMA7 and WMA7 are 0,
\* predictedQuantityTomorrow is max(0, round(slope * seasonalityFactor *
\* eventMultiplier)) and the stability confidence before the event penalty
\* is 100; for a history of 0 or 1 points the slope is 0 too, and the result
\* is predictedQuantityTomorrow 0 with the trend direction stable.
C17_ShortHistoryForecast ==
    (called = "generatePrediction" /\ Len(stats) < 7) => ShortHistoryForecast

\* The same holds for a category that names no inherited property.
ShortHistoryForecastForOwnCategories ==
    (/\ called = "generatePrediction"
     /\ Len(stats) < 7
     /\ ToLowerCase(productCategory) \notin ObjectPrototypeKeys) =>
        ShortHistoryForecast

\* The event's range contains the date and its affectedCategories has an
\* entry for the key.
Matches(event, date, key) ==
    Covers(event, date) /\ key \in DOMAIN event.affectedCategories

\* The product of the entries for the key of the events that match, 1 when
\* none does.
RECURSIVE ProductOfMatching(_, _, _)
ProductOfMatching(events, date, key) ==
    IF events = <<>> THEN RInt(1)
    ELSE LET rest == ProductOfMatching(Tail(events), date, key)
         IN  IF Matches(Head(events), date, key)
             THEN Normalized(RMul(Head(events).affectedCategories[key], rest))
             ELSE rest

\* The list in the opposite order.
Reversed(events) == [k \in 1..Len(events) |-> events[Len(events) + 1 - k]]

\* What C18 says of the multiplier calculateEventMultiplier returned.
MultiplierIsProductOfMatching ==
    /\ REq(eventImpact.multiplier,
           ProductOfMatching(activeEvents, clock.utcDay + 1,
                             ToLowerCase(productCategory)))
    /\ calculateEventMultiplier(Tomorrow(clock), productCategory,
                                Reversed(activeEvents)).multiplier
           = eventImpact.multiplier

\* C18: calculateEventMultiplier returns the product of the multipliers of
\* the events whose range, both ends included, contains the target date and
\* whose affectedCategories has an entry for the lower-cased category, 1.0
\* when there is none, and the same for the events in another order.
C18_MultiplierIsProductOfMatching ==
    called = "generatePrediction" => MultiplierIsProductOfMatching

\* The same holds for a category that names no inherited property.
MultiplierIsProductForOwnCategories ==
    (/\ called = "generatePrediction"
     /\ ToLowerCase(productCategory) \notin ObjectPrototypeKeys) =>
        MultiplierIsProductOfMatching

\* The stability confidence of the history when no event applies:
\* max(0, 100 - 10 * |WMA7 - SMA7|).
EventFreeStability ==
    LET gap == RAbs(RSub(calculateWMA(Quantities(stats), 7),
                         calculateSMA(Quantities(stats), 7)))
    IN  RMax(RInt(0), RSub(RInt(100), RMul(gap, RInt(10))))

\* The confidencePercent returned is the one of the event-free stability
\* confidence less 10, and not below 50.
PenaltyIsTenFlooredAtFifty ==
    prediction.confidencePercent =
        ConfidencePercent(DataVolumeConfidence(Quantities(stats)),
                          RMax(RInt(50), RSub(EventFreeStability, RInt(10))))

\* The confidencePercent returned for the same history without events.
EventFreeConfidencePercent ==
    generatePrediction("p1", productCategory, stats, <<>>, clock).confidencePercent

\* C19: when the event multiplier is not 1.0 the stability confidence used
\* is the event-free one less 10 and not below 50, and the confidencePercent
\* returned is not above the one returned for the same history without
\* events.
C19_EventNeverRaisesConfidence ==
    (called = "generatePrediction" /\ ~REq(eventImpact.multiplier, RInt(1))) =>
        /\ PenaltyIsTenFlooredAtFifty
        /\ RLeq(prediction.confidencePercent, EventFreeConfidencePercent)

\* The first half of C19 holds by itself.
EventPenaltyApplied ==
    (called = "generatePrediction" /\ ~REq(eventImpact.multiplier, RInt(1))) =>
        PenaltyIsTenFlooredAtFifty

\* The second half holds while the event-free stability confidence is 50 or
\* more.
EventNeverRaisesStableConfidence ==
    (/\ called = "generatePrediction"
     /\ ~REq(eventImpact.multiplier, RInt(1))
     /\ RLeq(RInt(50), EventFreeStability)) =>
        RLeq(prediction.confidencePercent, EventFreeConfidencePercent)

\* The record returned has the field activeEventImpact.
HasActiveEventImpact == "activeEventImpact" \in DOMAIN prediction

\* The positions of the events that were applied to the forecast: the range
\* contains tomorrow's date and the category finds a value that counts as
\* true in affectedCategories.
AppliedEvents ==
    {k \in 1..Len(activeEvents) :
        /\ Covers(activeEvents[k], clock.utcDay + 1)
        /\ Truthy(PropertyOf(activeEvents[k].affectedCategories,
                             ToLowerCase(productCategory)))}

LastApplied == CHOOSE k \in AppliedEvents : \A j \in AppliedEvents : j <= k

\* C20 as stated: activeEventImpact is present if and only if the event
\* penalty was applied (the event multiplier is not 1.0), and when present
\* it is 'Boosted by ' and the name of the last matching event of the list.
C20_ImpactIffPenalty ==
    called = "generatePrediction" =>
        /\ HasActiveEventImpact <=> ~REq(eventImpact.multiplier, RInt(1))
        /\ HasActiveEventImpact =>
               /\ AppliedEvents # {}
               /\ prediction.activeEventImpact =
                      <<"Boosted by ", activeEvents[LastApplied].name>>

\* C20 as amended: for events with names, activeEventImpact is present if
\* and only if an event was applied to the forecast; it is present whenever
\* the event multiplier is not 1.0, and when present it is 'Boosted by ' and
\* the name of the last applied event of the list.
C20_ImpactIffEventApplied ==
    called = "generatePrediction" =>
        /\ HasActiveEventImpact <=> AppliedEvents # {}
        /\ ~REq(eventImpact.multiplier, RInt(1)) => HasActiveEventImpact
        /\ HasActiveEventImpact =>
               prediction.activeEventImpact =
                   <<"Boosted by ", activeEvents[LastApplied].name>>

\* C20's case: two events were applied, their multipliers multiply to 1.0,
\* and the field names the second.
C20_Witness ==
    /\ called = "generatePrediction"
    /\ Cardinality(AppliedEvents) = 2
    /\ eventImpact.multiplier = RInt(1)
    /\ HasActiveEventImpact
    /\ prediction.activeEventImpact = <<"Boosted by ", activeEvents[2].name>>

\* Every quantity of the history is above the one of the day before.
StrictlyIncreasing(st) ==
    \A i \in 1..(Len(st) - 1) : st[i].quantity_sold < st[i + 1].quantity_sold

\* C11: for a history of at least 2 points whose quantities are strictly
\* increasing, the slope of calculateTrendSlope is above 0.5 and
\* generatePrediction returns the trend direction rising.
C11_RisingSeriesHasRisingTrend ==
    (/\ called = "generatePrediction"
     /\ Len(stats) >= 2
     /\ StrictlyIncreasing(stats)) =>
        /\ RLt(Rat(1, 2), calculateTrendSlope(Quantities(stats)))
        /\ prediction.trendDirection = "rising"

\* C11's case: four or more days, each selling one more than the day before.
C11_Witness ==
    /\ called = "generatePrediction"
    /\ Len(stats) >= 4
    /\ \A i \in 1..(Len(stats) - 1) :
           stats[i + 1].quantity_sold = stats[i].quantity_sold + 1
    /\ prediction.trendDirection = "rising"

\* The slope the trend label is about: 0 for fewer than 2 points, else the
\* least-squares slope of the whole history.
TrendSlopeOf(st) ==
    IF Len(st) < 2 THEN RInt(0) ELSE LeastSquaresSlope(st)

\* C21: generatePrediction labels the trend rising exactly when the slope is
\* above 0.5, falling exactly when it is below -0.5 and stable otherwise, a
\* slope of exactly 0.5 or -0.5 being stable; the slope is 0, and the label
\* stable, for every history of fewer than 2 points.
C21_TrendLabelFollowsSlope ==
    called = "generatePrediction" =>
        LET slope == TrendSlopeOf(stats)
        IN  /\ REq(calculateTrendSlope(Quantities(stats)), slope)
            /\ prediction.trendDirection \in {"rising", "falling", "stable"}
            /\ prediction.trendDirection = "rising" <=> 2 * slope.n > slope.d
            /\ prediction.trendDirection = "falling" <=> 2 * slope.n < -slope.d
            /\ Len(stats) < 2 => prediction.trendDirection = "stable"

\* C21's case: a history of 2 or more points whose slope is exactly 0.5,
\* labelled stable.
C21_Witness ==
    /\ called = "generatePrediction"
    /\ Len(stats) >= 2
    /\ REq(TrendSlopeOf(stats), Rat(1, 2))
    /\ prediction.trendDirection = "stable"

---------------------------------------------------------------------------
(* Properties of the stock optimizer *)

\* The projected daily demand is DemandNumerator / DemandDenominator:
\* (rate.n / rate.d + predicted) / 2.
DemandNumerator ==
    item.averageSellRate.n * prediction.predictedQuantityTomorrow.d
        + prediction.predictedQuantityTomorrow.n * item.averageSellRate.d

DemandDenominator ==
    2 * item.averageSellRate.d * prediction.predictedQuantityTomorrow.d

\* r = round(demand * (14 + leadTimeDays)): r - 1/2 <= the product < r + 1/2
IsRoundedTarget(r) ==
    /\ (2 * r - 1) * DemandDenominator
           <= 2 * DemandNumerator * (14 + leadTimeDays)
    /\ 2 * DemandNumerator * (14 + leadTimeDays)
           < (2 * r + 1) * DemandDenominator

\* C7: suggestedRestockQuantity is
\* max(0, round(projectedDailyDemand * (14 + leadTimeDays)) - currentStock)
\* and never negative: a positive quantity tops the stock up to the rounded
\* target, and the quantity is 0 when the rounded target is within the stock.
C7_RestockIsClampedShortfall ==
    called = "optimizeStock" =>
        /\ optimization.suggestedRestockQuantity >= 0
        /\ optimization.suggestedRestockQuantity > 0 =>
               IsRoundedTarget(optimization.suggestedRestockQuantity
                                   + item.currentStock)
        /\ optimization.suggestedRestockQuantity = 0 =>
               \E r \in 0..item.currentStock : IsRoundedTarget(r)

\* C7's case: something sells and the stock exceeds the target.
C7_Witness ==
    /\ called = "optimizeStock"
    /\ DemandNumerator > 0
    /\ ~IsRoundedTarget(item.currentStock)
    /\ optimization.suggestedRestockQuantity = 0

\* C8: for a positive demand daysUntilStockout is
\* floor(currentStock / projectedDailyDemand), and a stock below one day's
\* demand gives daysUntilStockout 0 and riskLevel High.
C8_DaysUntilStockoutIsFloor ==
    (called = "optimizeStock" /\ DemandNumerator > 0) =>
        /\ optimization.daysUntilStockout * DemandNumerator
               <= item.currentStock * DemandDenominator
        /\ item.currentStock * DemandDenominator
               < (optimization.daysUntilStockout + 1) * DemandNumerator
        /\ item.currentStock * DemandDenominator < DemandNumerator =>
               /\ optimization.daysUntilStockout = 0
               /\ optimization.riskLevel = "High"

\* C8's case: stock 5, sell rate 10, prediction 10, lead time 3.
C8_Witness ==
    /\ called = "optimizeStock"
    /\ item.currentStock = 5
    /\ item.averageSellRate.n = 10 * item.averageSellRate.d
    /\ prediction.predictedQuantityTomorrow = RInt(10)
    /\ leadTimeDays = 3
    /\ optimization.daysUntilStockout = 0
    /\ optimization.riskLevel = "High"

\* C9: with sell rate 0 and prediction 0, optimizeStock returns
\* daysUntilStockout 999, suggestedRestockQuantity 0 and riskLevel Low, for
\* every stock and every lead time.
C9_ZeroDemandIsLowRisk ==
    (/\ called = "optimizeStock"
     /\ item.averageSellRate.n = 0
     /\ prediction.predictedQuantityTomorrow = RInt(0)) =>
        /\ optimization.daysUntilStockout = 999
        /\ optimization.suggestedRestockQuantity = 0
        /\ optimization.riskLevel = "Low"

\* C10: the tier is High iff daysUntilStockout <= leadTimeDays, Medium iff
\* leadTimeDays < daysUntilStockout <= leadTimeDays + 4 and Low otherwise,
\* and the recommendation is the template of the tier.
C10_RiskTierAndRecommendation ==
    called = "optimizeStock" =>
        LET days == optimization.daysUntilStockout
            quantity == optimization.suggestedRestockQuantity
        IN  /\ optimization.riskLevel \in {"High", "Medium", "Low"}
            /\ optimization.riskLevel = "High" <=> days <= leadTimeDays
            /\ optimization.riskLevel = "Medium" <=>
                   (leadTimeDays < days /\ days <= leadTimeDays + 4)
            /\ optimization.riskLevel = "Low" <=> days > leadTimeDays + 4
            /\ optimization.riskLevel = "High" =>
                   optimization.recommendation =
                       <<"CRITICAL: Order ", quantity,
                         " units immediately to avoid stockout.">>
            /\ optimization.riskLevel = "Medium" =>
                   optimization.recommendation =
                       <<"Warning: Consider restocking ", quantity,
                         " units soon.">>
            /\ optimization.riskLevel = "Low" =>
                   optimization.recommendation =
                       <<"Stock levels are healthy for the next ", days,
                         " days.">>

\* C10's case: the last day of the Medium tier.
C10_Witness ==
    /\ called = "optimizeStock"
    /\ optimization.daysUntilStockout = leadTimeDays + 4
    /\ optimization.riskLevel = "Medium"

\* C26: optimizeStock returns daysUntilStockout 999 if and only if the
\* projected daily demand is 0: a horizon computed for a positive demand is
\* never 999.
C26_SentinelIffZeroDemand ==
    called = "optimizeStock" =>
        (optimization.daysUntilStockout = 999 <=> DemandNumerator = 0)

\* The half of C26 the code keeps: a demand of 0 gives 999.
ZeroDemandGivesSentinel ==
    (called = "optimizeStock" /\ DemandNumerator = 0) =>
        optimization.daysUntilStockout = 999

\* The other half outside the stock levels that reach the sentinel: for a
\* stock below 999 a positive demand never gives 999.
SentinelOnlyForZeroDemandBelowSentinelStock ==
    (/\ called = "optimizeStock"
     /\ item.currentStock < 999
     /\ DemandNumerator > 0) =>
        optimization.daysUntilStockout # 999

\* The sell rate of the item is a whole number of units a day.
WholeSellRate == item.averageSellRate.n % item.averageSellRate.d = 0

\* C27: for a whole stock, sell rate and predicted quantity, none negative,
\* and a lead time of 0 or more, optimizeStock returns a
\* suggestedRestockQuantity of 1 or more whenever it returns riskLevel High
\* or Medium: a CRITICAL or Warning recommendation never asks for 0 units.
C27_RiskyTierOrdersAtLeastOne ==
    (/\ called = "optimizeStock"
     /\ WholeSellRate
     /\ optimization.riskLevel \in {"High", "Medium"}) =>
        /\ optimization.suggestedRestockQuantity >= 1
        /\ optimization.recommendation[2] >= 1

\* C27 where something is projected to sell: the tiers High and Medium order
\* 1 unit or more.
RiskyTierOrdersAtLeastOneForPositiveDemand ==
    (/\ called = "optimizeStock"
     /\ DemandNumerator > 0
     /\ optimization.riskLevel \in {"High", "Medium"}) =>
        optimization.suggestedRestockQuantity >= 1

---------------------------------------------------------------------------
(* Properties of the cart store *)

\* C28: after any sequence of addItem, removeItem, updateQuantity and
\* clearCart from the empty cart, every line of the cart has a quantity of 1
\* or more.
C28_EveryLineHasQuantityAtLeastOne ==
    \A i \in 1..Len(items) : items[i].quantity >= 1

\* What the store does keep: no quantity below 0, and one line a product.
CartLinesAreDistinctAndNotNegative ==
    /\ \A i \in 1..Len(items) : items[i].quantity >= 0
    /\ \A i, j \in 1..Len(items) : i # j => items[i].id # items[j].id

---------------------------------------------------------------------------
(* Properties of decrementStock *)

\* Both calls have returned.
BothReturned == \A c \in Callers : stockCalls[c].pc = "returned"

\* C29: when two calls of decrementStock for the same product with
\* quantities q1 and q2 have run, in any interleaving of their reads and
\* writes, on a stock s >= q1 + q2 and neither reported an error, the stock
\* is s - q1 - q2; and the stock is never negative.
C29_EverySaleIsDeducted ==
    /\ current_stock["p1"] >= 0
    /\ (/\ BothReturned
        /\ \A c \in Callers : ~stockCalls[c].error
        /\ openingStock["p1"] >= stockCalls[1].quantity + stockCalls[2].quantity) =>
           current_stock["p1"] =
               openingStock["p1"] - stockCalls[1].quantity - stockCalls[2].quantity

\* The half of C29 the code keeps: the stock is never negative.
StockNeverNegative == \A id \in ProductIds : current_stock[id] >= 0

\* C29 for calls that do not overlap is not what fails: when both calls
\* returned without an error the stock is the opening stock less one of the
\* quantities or less both, floored at 0.
StockLessOneSaleOrBoth ==
    (BothReturned /\ \A c \in Callers : ~stockCalls[c].error) =>
        \E c \in Callers :
            current_stock["p1"] \in
                {NewStock(openingStock["p1"], stockCalls[c].quantity),
                 NewStock(openingStock["p1"],
                          stockCalls[1].quantity + stockCalls[2].quantity),
                 NewStock(NewStock(openingStock["p1"],
                                   stockCalls[3 - c].quantity),
                          stockCalls[c].quantity)}

---------------------------------------------------------------------------
(* Properties of the checkout *)

\* A run of handlePaymentSuccess has called decrementStock for a product.
CalledDecrementStock(run, id) ==
    /\ run.pc # "none"
    /\ \E i \in 1..run.index : run.items[i].id = id

\* A run of handlePaymentSuccess has called addLoyaltyPoints.
CalledAddLoyaltyPoints(run) ==
    run.pc \in {"addLoyaltyPoints:fetch", "addLoyaltyPoints:update",
                "generateExitPass", "setTimeout", "returned"}

\* C30: for one generated bill the stock of each cart product is
\* decremented once and the loyalty points are credited once: a second
\* handlePaymentSuccess triggered while the payment QR is shown calls
\* neither decrementStock nor addLoyaltyPoints again.
C30_OneBillIsPaidOnce ==
    Len(bills) = 1 =>
        /\ \A id \in ProductIds :
               Cardinality({r \in Callers : CalledDecrementStock(runs[r], id)}) <= 1
        /\ Cardinality({r \in Callers : CalledAddLoyaltyPoints(runs[r])}) <= 1

\* What the page does keep: nothing is deducted or credited before a bill
\* is inserted and its payment QR clicked.
NothingPaidBeforeTheQR ==
    (\A r \in Callers : runs[r].pc = "none") =>
        /\ current_stock = openingStock
        /\ loyalty_points = 0

=============================================================================
